---- MODULE Spec2Model ----
(***************************************************************************)
(* Model of addons/purple_fuse/cli/testrunner.py: the `Unittest` command.  *)
(* One behaviour is one call of Unittest.run(args).  The external          *)
(* libraries (purplespade, coverage, unittest, logging, openerp) are       *)
(* opaque: every call into them is appended to `calls`, together with the  *)
(* logging.disable level in force when the call is made.                   *)
(*                                                                         *)
(* Strings that the code takes apart (-i, -u) are sequences of one         *)
(* character strings; dotted test names are sequences of their components. *)
(***************************************************************************)
EXTENDS Integers, Sequences, FiniteSets, TLC

\* ---------------------------------------------------------------- bounds
MaxLen == 2

\* ------------------------------------------------------- program constants
LOG_ENABLED == 0
LOG_DISABLED == 100
DefaultVerbosity == 2

NoneVal == "<None>"
CoverageMissingMsg == "Coverage package have to be installed"

\* ------------------------------------------------------------ input sets
Alphabet == {"a", ","}

RECURSIVE StringsUpTo(_)
StringsUpTo(n) ==
    IF n = 0 THEN {<<>>}
    ELSE LET S == StringsUpTo(n - 1)
         IN  S \cup {Append(s, c) : s \in {t \in S : Len(t) = n - 1}, c \in Alphabet}

ModuleLists == StringsUpTo(MaxLen)

Databases == {"cfgdb", "testdb"}
CoverValues == {NoneVal, "", "addons/*"}
LogChoices == {"none", "init", "test", "all"}

TestArgs ==
    { <<>>,
      << <<"sale">> >>,
      << <<"sale", "tests", "TestSale">> >>,
      << <<"openerp", "addons", "crm", "tests", "TestCrm">>, <<"crm">> >> }

\* ------------------------------------------- the external world, opaque
\* openerp.addons.__dict__: name -> kind of the object bound to it
AddonsNamespace ==
    [k \in {"base", "sale", "crm", "__path__"} |->
        IF k = "__path__" THEN "list" ELSE "module"]

\* openerp.modules.module.get_test_modules(name), each module already
\* expanded by loader.loadTestsFromModule
get_test_modules(name) ==
    CASE name = "base" -> << <<"base", "t1">> >>
      [] name = "sale" -> << <<"sale", "t1">>, <<"sale", "t2">> >>
      [] name = "crm"  -> << <<"crm", "t1">> >>
      [] OTHER         -> << >>

\* ------------------------------------------------------------ pure helpers
Range(s) == {s[i] : i \in 1..Len(s)}

\* python truthiness of an option value that is a str or None
Truthy(v) == v # NoneVal /\ v # ""

\* python truthiness of a str held as its sequence of characters
TruthyStr(s) == s # <<>>

\* str.split(',')
RECURSIVE Split(_)
Split(s) ==
    IF \A i \in 1..Len(s) : s[i] # ","
    THEN <<s>>
    ELSE LET i == CHOOSE j \in 1..Len(s) :
                     s[j] = "," /\ \A k \in 1..(j - 1) : s[k] # ","
         IN  <<SubSeq(s, 1, i - 1)>> \o Split(SubSeq(s, i + 1, Len(s)))

\* dict.fromkeys(keys, 1)
FromKeys(keys) == [k \in Range(keys) |-> 1]

EmptyDict == [k \in {} |-> 1]

\* options.X and dict.fromkeys(options.X.split(','), 1) or {}
ModulesDict(s) ==
    IF TruthyStr(s) /\ DOMAIN FromKeys(Split(s)) # {}
    THEN FromKeys(Split(s))
    ELSE EmptyDict

need_env(fast, init, update) ==
    ~fast /\ DOMAIN init = {} /\ DOMAIN update = {}

ensure_addon_prefix(name) ==
    IF Len(name) >= 3 /\ name[1] = "openerp" /\ name[2] = "addons"
    THEN name
    ELSE <<"openerp", "addons">> \o name

build_addon_test_suite(name) == get_test_modules(name)

exclude_more == {"base", "base_import", "sale"}

exclude == {"base", "base_import"}

coverage_raises_never(cover, hc) == FALSE

coverage_raises(cover, hc) == Truthy(cover) /\ ~hc

set_logging(log) == IF log THEN LOG_ENABLED ELSE LOG_DISABLED

DefaultOptions ==
    [ database |-> "cfgdb", scratch |-> FALSE, init |-> <<>>, update |-> <<>>,
      without_demo |-> "", cover |-> NoneVal, skipif |-> NoneVal, fast |-> FALSE,
      verbosity |-> DefaultVerbosity, log |-> "init", tests |-> <<>> ]

\* ------------------------------------------------------------------ state
VARIABLES
    pc,            \* position in Unittest.run
    has_coverage,  \* module level flag set by `import coverage`
    options,       \* the argparse namespace
    config,        \* openerp.tools.config (the keys run touches)
    disable,       \* level last given to logging.disable
    calls,         \* history of calls into the libraries, [op, log]
    drop_args,     \* arguments of the drop_database calls
    env_args,      \* arguments of the purplespade.openerp_env calls
    env_open,      \* the openerp_env context is currently entered
    cov,           \* state of the coverage object
    tests_iter,    \* build_test_suite: the tests still to visit
    keys_iter,     \* build_all_tests_suite: namespace keys still to visit
    suite,         \* the suite under assembly
    ran,           \* the suites given to runner.run
    exc            \* the exception that ended run, or NoneVal

vars == << pc, has_coverage, options, config, disable, calls, drop_args,
           env_args, env_open, cov, tests_iter, keys_iter, suite, ran, exc >>

Call(op) == [op |-> op, log |-> disable]

Init ==
    /\ pc = "L36"
    /\ has_coverage \in BOOLEAN
    /\ options = DefaultOptions
    /\ config = [db_name |-> "cfgdb", skipif |-> NoneVal]
    /\ disable = LOG_ENABLED
    /\ calls = <<>>
    /\ drop_args = <<>>
    /\ env_args = <<>>
    /\ env_open = FALSE
    /\ cov = "none"
    /\ tests_iter = <<>>
    /\ keys_iter = {}
    /\ suite = <<>>
    /\ ran = <<>>
    /\ exc = NoneVal

\* ---------------------------------------------------------------- actions
\* options = self.parse_args(args); argparse exits on a bad command line
ParseArgs ==
    /\ pc = "L36"
    /\ \/ /\ \E db \in Databases, sc \in BOOLEAN, i \in ModuleLists,
               u \in ModuleLists, cv \in CoverValues, f \in BOOLEAN,
               lg \in LogChoices, ts \in TestArgs :
               options' = [DefaultOptions EXCEPT
                              !.database = db, !.scratch = sc, !.init = i,
                              !.update = u, !.cover = cv, !.fast = f,
                              !.log = lg, !.tests = ts]
          /\ pc' = "L37"
          /\ exc' = NoneVal
       \/ /\ options' = options
          /\ pc' = "done"
          /\ exc' = "SystemExit"
    /\ calls' = Append(calls, Call("parse_args"))
    /\ UNCHANGED << has_coverage, config, disable, drop_args, env_args,
                    env_open, cov, tests_iter, keys_iter, suite, ran >>

\* if options.scratch: purplespade.drop_database(options.database)
Scratch ==
    /\ pc = "L37"
    /\ IF options.scratch
       THEN /\ calls' = Append(calls, Call("drop_database"))
            /\ drop_args' = Append(drop_args, options.database)
       ELSE UNCHANGED << calls, drop_args >>
    /\ pc' = "L40"
    /\ UNCHANGED << has_coverage, options, config, disable, env_args,
                    env_open, cov, tests_iter, keys_iter, suite, ran, exc >>

\* self.set_logging(options.log in ['init', 'all']); config['db_name'] = ...
SetupLogging ==
    /\ pc = "L40"
    /\ disable' = set_logging(options.log \in {"init", "all"})
    /\ config' = IF Truthy(options.database)
                 THEN [config EXCEPT !.db_name = options.database]
                 ELSE config
    /\ pc' = "L43"
    /\ UNCHANGED << has_coverage, options, calls, drop_args, env_args,
                    env_open, cov, tests_iter, keys_iter, suite, ran, exc >>

\* with self.enclose_openerp_api(options):
EncloseEnter ==
    /\ pc = "L43"
    /\ LET init   == ModulesDict(options.init)
           update == ModulesDict(options.update)
       IN  IF need_env(options.fast, init, update)
           THEN /\ calls' = calls \o << Call("enclose_openerp_api"),
                                        Call("openerp_env") >>
                /\ env_args' = Append(env_args,
                                  [ db_name |-> options.database,
                                    without_demo |-> options.without_demo,
                                    init |-> init, update |-> update ])
                /\ env_open' = TRUE
           ELSE /\ calls' = Append(calls, Call("enclose_openerp_api"))
                /\ UNCHANGED << env_args, env_open >>
    /\ pc' = "L44"
    /\ UNCHANGED << has_coverage, options, config, disable, drop_args, cov,
                    tests_iter, keys_iter, suite, ran, exc >>

\* config['skipif'] = options.skipif; with self.coverage_report(options.cover):
CoverageEnter ==
    /\ pc = "L44"
    /\ config' = [config EXCEPT !.skipif = options.skipif]
    /\ IF coverage_raises(options.cover, has_coverage)
       THEN /\ exc' = CoverageMissingMsg
            /\ pc' = "exit_env"
            /\ UNCHANGED << calls, cov >>
       ELSE /\ IF Truthy(options.cover)
               THEN /\ calls' = Append(calls, Call("cov.start"))
                    /\ cov' = "started"
               ELSE UNCHANGED << calls, cov >>
            /\ pc' = "L69"
            /\ exc' = exc
    /\ UNCHANGED << has_coverage, options, disable, drop_args, env_args,
                    env_open, tests_iter, keys_iter, suite, ran >>

\* execute_tests: if tests: build_test_suite(tests) else build_all_tests_suite()
ExecuteTests ==
    /\ pc = "L69"
    /\ suite' = <<>>
    /\ IF options.tests # <<>>
       THEN /\ calls' = Append(calls, Call("build_test_suite"))
            /\ tests_iter' = options.tests
            /\ keys_iter' = keys_iter
            /\ pc' = "L82"
       ELSE /\ calls' = Append(calls, Call("build_all_tests_suite"))
            /\ keys_iter' = DOMAIN AddonsNamespace
            /\ tests_iter' = tests_iter
            /\ pc' = "L94"
    /\ UNCHANGED << has_coverage, options, config, disable, drop_args,
                    env_args, env_open, cov, ran, exc >>

\* build_test_suite: one iteration of `for test in tests`
BuildTestSuiteStep ==
    /\ pc = "L82"
    /\ tests_iter # <<>>
    /\ LET test == Head(tests_iter)
       IN  suite' = IF Len(test) > 1
                    THEN Append(suite, ensure_addon_prefix(test))
                    ELSE suite \o build_addon_test_suite(test[1])
    /\ tests_iter' = Tail(tests_iter)
    /\ UNCHANGED << pc, has_coverage, options, config, disable, calls,
                    drop_args, env_args, env_open, cov, keys_iter, ran, exc >>

\* build_all_tests_suite: one iteration of the loop over the namespace, whose
\* order is the dict's
BuildAllStep ==
    /\ pc = "L94"
    /\ \E key \in keys_iter :
          /\ keys_iter' = keys_iter \ {key}
          /\ suite' = IF AddonsNamespace[key] = "module" /\ key \notin exclude
                      THEN suite \o build_addon_test_suite(key)
                      ELSE suite
    /\ UNCHANGED << pc, has_coverage, options, config, disable, calls,
                    drop_args, env_args, env_open, cov, tests_iter, ran, exc >>

\* return suite
BuildReturn ==
    /\ \/ pc = "L82" /\ tests_iter = <<>>
       \/ pc = "L94" /\ keys_iter = {}
    /\ pc' = "L73"
    /\ UNCHANGED << has_coverage, options, config, disable, calls, drop_args,
                    env_args, env_open, cov, tests_iter, keys_iter, suite,
                    ran, exc >>

RunSuite_early ==
    /\ pc \in {"L73", "L82", "L94"}
    /\ disable' = set_logging(options.log \in {"test", "all"})
    /\ calls' = Append(calls, [op |-> "runner.run", log |-> disable'])
    /\ ran' = Append(ran, suite)
    /\ pc' = "L196"
    /\ UNCHANGED << has_coverage, options, config, drop_args, env_args,
                    env_open, cov, tests_iter, keys_iter, suite, exc >>

\* runner = TextTestRunner(...); self.set_logging(log); runner.run(suite)
RunSuite ==
    /\ pc = "L73"
    /\ disable' = set_logging(options.log \in {"test", "all"})
    /\ calls' = Append(calls, [op |-> "runner.run", log |-> disable'])
    /\ ran' = Append(ran, suite)
    /\ pc' = "L196"
    /\ UNCHANGED << has_coverage, options, config, drop_args, env_args,
                    env_open, cov, tests_iter, keys_iter, suite, exc >>

\* coverage_report, finally: cov.stop(); cov.save(); cov.report(include=cover)
CoverageExit ==
    /\ pc = "L196"
    /\ IF Truthy(options.cover)
       THEN /\ calls' = calls \o << Call("cov.stop"), Call("cov.save"),
                                    Call("cov.report") >>
            /\ cov' = "reported"
       ELSE UNCHANGED << calls, cov >>
    /\ pc' = "exit_env"
    /\ UNCHANGED << has_coverage, options, config, disable, drop_args,
                    env_args, env_open, tests_iter, keys_iter, suite, ran, exc >>

\* leaving the enclose_openerp_api block, normally or by the exception
EncloseExit ==
    /\ pc = "exit_env"
    /\ IF env_open
       THEN /\ calls' = Append(calls, Call("openerp_env.exit"))
            /\ env_open' = FALSE
       ELSE UNCHANGED << calls, env_open >>
    /\ pc' = "done"
    /\ UNCHANGED << has_coverage, options, config, disable, drop_args,
                    env_args, cov, tests_iter, keys_iter, suite, ran, exc >>

Next ==
    \/ ParseArgs
    \/ Scratch
    \/ SetupLogging
    \/ EncloseEnter
    \/ CoverageEnter
    \/ ExecuteTests
    \/ BuildTestSuiteStep
    \/ BuildAllStep
    \/ BuildReturn
    \/ RunSuite
    \/ CoverageExit
    \/ EncloseExit

Spec == Init /\ [][Next]_vars

\* ------------------------------------------------- vocabulary of the claims
Ops == {calls[i].op : i \in 1..Len(calls)}

OpAt(name) == {i \in 1..Len(calls) : calls[i].op = name}

Parsed == pc # "L36" /\ exc # "SystemExit"

CoverageOps == {"cov.start", "cov.stop", "cov.save", "cov.report"}
BuildOps == {"build_test_suite", "build_all_tests_suite"}

Stage(op) ==
    CASE op = "parse_args" -> 1
      [] op \in {"enclose_openerp_api", "openerp_env"} -> 2
      [] op \in BuildOps -> 3
      [] op = "runner.run" -> 4
      [] OTHER -> 0

\* the option string names at least one module
NamesModule(s) == \E i \in 1..Len(Split(s)) : Split(s)[i] # <<>>

\* {m1: 1, ..., mk: 1} for the comma separated list m1,...,mk
MappingOf(s) == IF s = <<>> THEN EmptyDict ELSE [m \in Range(Split(s)) |-> 1]

ModuleKeys == {k \in DOMAIN AddonsNamespace : AddonsNamespace[k] = "module"}

TestsOfAddons(ks) == UNION {Range(get_test_modules(k)) : k \in ks}

\* -------------------------------------------------------------------- C1
\* C1: the steps of a run happen in the order argument parsing, environment
\* context, suite assembly, suite execution: no call of a later step precedes
\* a call of an earlier one, every step that happens is preceded by the step
\* before it, the assembly loops never have runner.run behind them, and the
\* suite given to runner.run is one whose assembly loop has run to its end.
C1_StepsInOrder ==
    /\ \A i, j \in 1..Len(calls) :
          (i < j /\ Stage(calls[i].op) > 0 /\ Stage(calls[j].op) > 0)
             => Stage(calls[i].op) <= Stage(calls[j].op)
    /\ \A j \in 1..Len(calls) :
          Stage(calls[j].op) > 1
             => \E i \in 1..(j - 1) : Stage(calls[i].op) = Stage(calls[j].op) - 1
    /\ pc \in {"L82", "L94"} => "runner.run" \notin Ops
    /\ Len(ran) > 0 => /\ Len(ran) = 1
                       /\ tests_iter = <<>>
                       /\ keys_iter = {}
                       /\ ran[1] = suite

C1_Witness ==
    /\ pc = "done"
    /\ "openerp_env" \in Ops
    /\ "runner.run" \in Ops
    /\ Len(ran) = 1 /\ Len(ran[1]) = 3

\* -------------------------------------------------------------------- C2
\* C2: once the enclose_openerp_api block is entered, the environment has
\* been initialised whenever -i or -u names a module, with or without
\* --fast, and it has been skipped only for --fast without -i and -u.
C2_FastNoEffectWithInitUpdate ==
    (Parsed /\ pc \notin {"L37", "L40", "L43"}) =>
        /\ (NamesModule(options.init) \/ NamesModule(options.update))
              => "openerp_env" \in Ops
        /\ "openerp_env" \notin Ops
              => (options.fast /\ options.init = <<>> /\ options.update = <<>>)

\* -------------------------------------------------------------------- C3
\* C3: once the enclose_openerp_api block is entered with -i or -u given,
\* openerp_env has been entered, and every entry of openerp_env has init and
\* update equal to the mappings of the modules listed by -i and -u (empty
\* for an absent or empty option).
C3_EnvGetsInitUpdate ==
    (Parsed /\ pc \notin {"L37", "L40", "L43"}) =>
        /\ (options.init # <<>> \/ options.update # <<>>) => Len(env_args) = 1
        /\ \A i \in 1..Len(env_args) :
              /\ env_args[i].init = MappingOf(options.init)
              /\ env_args[i].update = MappingOf(options.update)

\* -------------------------------------------------------------------- C4
\* C4: with --scratch the database is dropped exactly once, before the
\* environment setup, and openerp_env is entered for that database before
\* runner.run; without --scratch drop_database is never called.
C4_ScratchRecreates ==
    Parsed =>
        IF options.scratch
        THEN /\ pc # "L37" =>
                  /\ Cardinality(OpAt("drop_database")) = 1
                  /\ drop_args = <<options.database>>
             /\ \A i \in OpAt("drop_database"), j \in 1..Len(calls) :
                   Stage(calls[j].op) = 2 => i < j
             /\ "runner.run" \in Ops =>
                   /\ \E i \in OpAt("openerp_env"), j \in OpAt("runner.run") : i < j
                   /\ Len(env_args) = 1
                   /\ env_args[1].db_name = options.database
        ELSE "drop_database" \notin Ops /\ drop_args = <<>>

C6_LogControlsParts ==
    Parsed =>
        \A i \in 1..Len(calls) :
            /\ calls[i].op \in {"drop_database", "openerp_env"}
                  => (calls[i].log = LOG_ENABLED <=> options.log \in {"init", "all"})
            /\ calls[i].op = "runner.run"
                  => (calls[i].log = LOG_ENABLED <=> options.log \in {"test", "all"})
            /\ (options.log = "none" /\ calls[i].op # "parse_args")
                  => calls[i].log = LOG_DISABLED

\* -------------------------------------------------------------------- C7
\* C7 (as amended): when --coverage has a non-empty value and the coverage
\* package is missing, the run ends with the exception 'Coverage package
\* have to be installed', no suite is assembled or executed and coverage is
\* never started, stopped, saved or reported; when --coverage is absent or
\* empty the run never ends with that exception and coverage is never
\* started, stopped, saved or reported.
C7_CoverageRequired ==
    Parsed =>
        /\ (Truthy(options.cover) /\ ~has_coverage) =>
              /\ Ops \cap (BuildOps \cup {"runner.run"} \cup CoverageOps) = {}
              /\ suite = <<>> /\ ran = <<>> /\ cov = "none"
              /\ pc = "done" => exc = CoverageMissingMsg
        /\ ~Truthy(options.cover) =>
              /\ exc # CoverageMissingMsg
              /\ Ops \cap CoverageOps = {}
              /\ cov = "none"

\* C7 (as stated): the same with "--coverage is given" for "has a non-empty
\* value" and "--coverage is not given" for "is absent or empty".
C7_CoverageGiven ==
    Parsed =>
        /\ (options.cover # NoneVal /\ ~has_coverage) =>
              /\ Ops \cap (BuildOps \cup {"runner.run"} \cup CoverageOps) = {}
              /\ pc = "done" => exc = CoverageMissingMsg
        /\ options.cover = NoneVal =>
              /\ exc # CoverageMissingMsg
              /\ Ops \cap CoverageOps = {}

C7_Witness ==
    /\ pc = "done"
    /\ options.cover = "addons/*"
    /\ ~has_coverage
    /\ exc = CoverageMissingMsg
    /\ "openerp_env.exit" \in Ops
====
